---- MODULE Spec2Model ----
(***************************************************************************)
(* Model of squidwarden's admin UI (cmd/ui/ui.go): the policy store        *)
(* handlers running SQL statements inside txWrap transactions, the read    *)
(* helpers, and the log tail.                                              *)
(***************************************************************************)
EXTENDS Integers, Sequences, FiniteSets, TLC

VARIABLES
    db,        \* committed content of the sqlite database
    tx,        \* the in-flight transaction of a replace-all handler
    last,      \* outcome of the handler call that completed last (none while
               \* a replace-all call is in flight)
    lastRead,  \* result of the read helper called since the last handler step
    logLines,  \* content of the squid log, split at "\n"
    tail,      \* entries written by the last tailLogHandler call
    pure       \* argument and results of a call of host2domain or of
               \* parseLogEntry

vars == <<db, tx, last, lastRead, logLines, tail, pure>>

(***************************************************************************)
(* Bounds                                                                  *)
(***************************************************************************)
MaxList == 2    \* longest sources[] / acls[] / rules[] / comments[] list
MaxLines == 4   \* lines in the squid log

(***************************************************************************)
(* Identifiers.  Every identifier is a string; the well-formed ones are    *)
(* the UUIDs minted by uuid.NewV4 or seeded in the database.               *)
(***************************************************************************)
GroupIDs == {"g1"}
SourceIDs == {"s1", "s2"}
newACL == "a0"
ACLIDs == {newACL, "a1"}
RuleIDs == {"r1", "r2"}
BadIDs == {"7"}
UUIDs == GroupIDs \cup SourceIDs \cup ACLIDs \cup RuleIDs
Comments == {"c", "d"}
NoRow == "-"

reUUID(s) == s \in UUIDs

RECURSIVE formUUIDsStringSlice(_)
formUUIDsStringSlice(vs) ==
    IF vs = <<>> THEN TRUE
    ELSE reUUID(Head(vs)) /\ formUUIDsStringSlice(Tail(vs))

assertUUID(s) == reUUID(s)

\* Lists of length 0..MaxList over S.
Lists(S) == UNION {[1..n -> S] : n \in 0..MaxList}

Range(s) == {s[i] : i \in 1..Len(s)}

(***************************************************************************)
(* The database schema: the relations and the referential constraints the  *)
(* store enforces (PRAGMA foreign_keys = ON).                              *)
(***************************************************************************)
EmptyDB ==
    [sources |-> {}, groups |-> {}, members |-> <<>>, acls |-> {},
     rules |-> {}, aclrules |-> <<>>, groupaccess |-> <<>>]

SourceKeys(d) == {r.source_id : r \in d.sources}
GroupKeys(d) == {r.group_id : r \in d.groups}
ACLKeys(d) == {r.acl_id : r \in d.acls}
RuleKeys(d) == {r.rule_id : r \in d.rules}

\* Every reference column points at a row of the table it references.
ForeignKeysOK(d) ==
    /\ \A i \in 1..Len(d.members) :
          /\ d.members[i].group_id \in GroupKeys(d)
          /\ d.members[i].source_id \in SourceKeys(d)
    /\ \A i \in 1..Len(d.aclrules) :
          /\ d.aclrules[i].acl_id \in ACLKeys(d)
          /\ d.aclrules[i].rule_id \in RuleKeys(d)
    /\ \A i \in 1..Len(d.groupaccess) :
          /\ d.groupaccess[i].group_id \in GroupKeys(d)
          /\ d.groupaccess[i].acl_id \in ACLKeys(d)

\* Identifier columns of the entity tables are primary keys.
PrimaryKeysOK(d) ==
    /\ Cardinality(SourceKeys(d)) = Cardinality(d.sources)
    /\ Cardinality(GroupKeys(d)) = Cardinality(d.groups)
    /\ Cardinality(ACLKeys(d)) = Cardinality(d.acls)
    /\ Cardinality(RuleKeys(d)) = Cardinality(d.rules)

ConstraintsOK(d) == ForeignKeysOK(d) /\ PrimaryKeysOK(d)

(***************************************************************************)
(* SQL statements of the handlers, as functions on the database content.   *)
(***************************************************************************)
DeleteGroupAccess(d, g) ==
    [d EXCEPT !.groupaccess = SelectSeq(@, LAMBDA r : r.group_id # g)]

InsertGroupAccess(d, g, a, c) ==
    [d EXCEPT !.groupaccess =
        Append(@, [group_id |-> g, acl_id |-> a, comment |-> c])]

DeleteMembers(d, g) ==
    [d EXCEPT !.members = SelectSeq(@, LAMBDA r : r.group_id # g)]

InsertMember(d, g, s, c) ==
    [d EXCEPT !.members =
        Append(@, [group_id |-> g, source_id |-> s, comment |-> c])]

InsertSource(d, s, src, c) ==
    [d EXCEPT !.sources = @ \cup {[source_id |-> s, source |-> src, comment |-> c]}]

DeleteSource(d, s) ==
    [d EXCEPT !.sources = {r \in @ : r.source_id # s}]

InsertACL(d, a, c) ==
    [d EXCEPT !.acls = @ \cup {[acl_id |-> a, comment |-> c]}]

DeleteACL(d, a) ==
    [d EXCEPT !.acls = {r \in @ : r.acl_id # a}]

InsertGroup(d, g, c) ==
    [d EXCEPT !.groups = @ \cup {[group_id |-> g, comment |-> c]}]

InsertRule(d, id, f) ==
    [d EXCEPT !.rules = @ \cup
        {[rule_id |-> id, type |-> f.type, value |-> f.value,
          action |-> f.action, comment |-> f.comment]}]

UpdateRule(d, id, f) ==
    [d EXCEPT !.rules =
        {IF r.rule_id = id
         THEN [rule_id |-> id, type |-> f.type, value |-> f.value,
               action |-> f.action, comment |-> f.comment]
         ELSE r : r \in @}]

\* A DELETE FROM rules that removes no row.
DeleteNoRules(d, ids) == d

DeleteRules(d, ids) ==
    [d EXCEPT !.rules = {r \in @ : r.rule_id \notin Range(ids)}]

InsertAclRule(d, a, id) ==
    [d EXCEPT !.aclrules = Append(@, [acl_id |-> a, rule_id |-> id])]

DeleteAclRules(d, ids) ==
    [d EXCEPT !.aclrules = SelectSeq(@, LAMBDA r : r.rule_id \notin Range(ids))]

\* A move that adds a row for each rule instead of re-targeting its row.
CopyAclRules(d, ids, dst) ==
    [d EXCEPT !.aclrules = @ \o
        SelectSeq([i \in 1..Len(ids) |-> [acl_id |-> dst, rule_id |-> ids[i]]],
                  LAMBDA r : r.rule_id \in {x.rule_id : x \in Range(d.aclrules)})]

\* UPDATE aclrules SET acl_id=dst WHERE rule_id IN (ids)
UpdateAclRules(d, ids, dst) ==
    [d EXCEPT !.aclrules =
        [i \in 1..Len(@) |->
            IF @[i].rule_id \in Range(ids)
            THEN [acl_id |-> dst, rule_id |-> @[i].rule_id]
            ELSE @[i]]]

CountAllMembers(d, s) == Len(d.members)

\* SELECT COUNT(*) FROM members WHERE source_id=?
CountMembers(d, s) == Len(SelectSeq(d.members, LAMBDA r : r.source_id = s))

\* SELECT COUNT(*) FROM aclrules WHERE acl_id=?
CountAclRules(d, a) == Len(SelectSeq(d.aclrules, LAMBDA r : r.acl_id = a))

(***************************************************************************)
(* A statement of a transaction: kind k and up to three values.            *)
(***************************************************************************)
Stmt(k, a, b, c) == [k |-> k, a |-> a, b |-> b, c |-> c]

\* The database content a statement produces, before constraint checking.
Apply(d, st) ==
    CASE st.k = "delGrants"   -> DeleteGroupAccess(d, st.a)
      [] st.k = "insGrant"    -> InsertGroupAccess(d, st.a, st.b, st.c)
      [] st.k = "delMembers"  -> DeleteMembers(d, st.a)
      [] st.k = "insMember"   -> InsertMember(d, st.a, st.b, st.c)
      [] st.k = "insSource"   -> InsertSource(d, st.a, st.b, st.c)
      [] st.k = "delSource"   -> DeleteSource(d, st.a)
      [] st.k = "insACL"      -> InsertACL(d, st.a, st.c)
      [] st.k = "delACL"      -> DeleteACL(d, st.a)
      [] st.k = "insGroup"    -> InsertGroup(d, st.a, st.c)
      [] st.k = "insRule"     -> InsertRule(d, st.a, st.b)
      [] st.k = "updRule"     -> UpdateRule(d, st.a, st.b)
      [] st.k = "delRules"    -> DeleteRules(d, st.a)
      [] st.k = "insAclRule"  -> InsertAclRule(d, st.a, st.b)
      [] st.k = "delAclRules" -> DeleteAclRules(d, st.a)
      [] st.k = "moveRules"   -> UpdateAclRules(d, st.a, st.b)
      [] OTHER                -> d

\* tx.Exec: the statement fails on a storage fault or a violated constraint.
ExecOK(d, st, fault) == ~fault /\ ConstraintsOK(Apply(d, st))

(***************************************************************************)
(* Results of handler calls and of read helpers.                           *)
(***************************************************************************)
\* out: "ok", "rejected" (validation error before any database call),
\* "panic", "blocked" (errHTTP 400 carrying the count n), "dberr" (the
\* error of a failed database call).  calls counts the database calls the
\* handler issued, db.Begin included.  changed tells whether the call
\* changed the committed database, mismatch whether the request's identifier
\* and comment lists differ in length, new holds the pairs submitted by a
\* replace-all call that committed, faulted whether a storage fault hit one
\* of the call's database calls, refs the number of rows that referenced the
\* entity when a delete handler was called, rows the number of aclrules rows
\* when aclMoveHandler was called.
Result(op, id, out, calls) ==
    [op |-> op, id |-> id, out |-> out, calls |-> calls, n |-> 0, refs |-> 0,
     rows |-> 0, changed |-> FALSE, faulted |-> FALSE, mismatch |-> FALSE,
     new |-> <<>>]

NoResult == Result("none", NoRow, "none", 0)

NoRead == [op |-> "none", id |-> NoRow, out |-> "none", faulted |-> FALSE, val |-> {}]

IdleTx ==
    [active |-> FALSE, op |-> "none", gid |-> NoRow, stmts |-> <<>>,
     work |-> EmptyDB, calls |-> 0, mismatch |-> FALSE,
     old |-> <<>>, new |-> <<>>]

\* The (key, comment) pairs of a list of rows, in row order.
GrantPairs(d, g) ==
    LET rows == SelectSeq(d.groupaccess, LAMBDA r : r.group_id = g)
    IN  [i \in 1..Len(rows) |-> <<rows[i].acl_id, rows[i].comment>>]

MemberPairs(d, g) ==
    LET rows == SelectSeq(d.members, LAMBDA r : r.group_id = g)
    IN  [i \in 1..Len(rows) |-> <<rows[i].source_id, rows[i].comment>>]

\* The pairs a request submits: element n of the identifier list with
\* element n of the comment list.
Zip(ids, comments) ==
    [n \in 1..(IF Len(ids) <= Len(comments) THEN Len(ids) ELSE Len(comments))
        |-> <<ids[n], comments[n]>>]

\* rows.Next()/Scan loop filling a Go map: a later row overwrites an
\* earlier one with the same key.
ScanMap(pairs) ==
    {p \in Range(pairs) :
        \E i \in 1..Len(pairs) :
            /\ pairs[i] = p
            /\ \A j \in (i+1)..Len(pairs) : pairs[j][1] # p[1]}

(***************************************************************************)
(* txWrap: db.Begin, the statements of f, tx.Commit; the deferred          *)
(* tx.Rollback discards the transaction's writes unless it committed.      *)
(***************************************************************************)
RollbackKeepsWrites(d, work) == work

Rollback(d, work) == d

Commit(d, work) == work

\* The replace-all handlers run their transaction one statement at a time,
\* so that reads can interleave with it.
TxStart(op, g, stmts, pairs, old, mismatch) ==
    [active |-> TRUE, op |-> op, gid |-> g, stmts |-> stmts, work |-> db,
     calls |-> 1, mismatch |-> mismatch, old |-> old, new |-> pairs]

TxDone(out, newdb, fault) ==
    /\ db' = newdb
    /\ tx' = IdleTx
    /\ last' = [Result(tx.op, tx.gid, out, tx.calls + 1) EXCEPT
                    !.changed = (newdb # db), !.mismatch = tx.mismatch,
                    !.faulted = fault,
                    !.new = IF out = "ok" THEN tx.new ELSE <<>>]
    /\ lastRead' = NoRead
    /\ UNCHANGED <<logLines, tail, pure>>

TxExec(fault) ==
    /\ tx.active
    /\ tx.stmts # <<>>
    /\ LET st == Head(tx.stmts) IN
       IF st.k = "panic"
       THEN /\ db' = Rollback(db, tx.work)
            /\ tx' = IdleTx
            /\ last' = [Result(tx.op, tx.gid, "panic", tx.calls) EXCEPT
                            !.changed = (db' # db), !.mismatch = tx.mismatch]
            /\ lastRead' = NoRead
            /\ UNCHANGED <<logLines, tail, pure>>
       ELSE IF ExecOK(tx.work, st, fault)
       THEN /\ tx' = [tx EXCEPT !.work = Apply(tx.work, st),
                                !.stmts = Tail(tx.stmts),
                                !.calls = @ + 1]
            /\ lastRead' = NoRead
            /\ UNCHANGED <<db, last, logLines, tail, pure>>
       ELSE TxDone("dberr", Rollback(db, tx.work), fault)

TxCommit(fault) ==
    /\ tx.active
    /\ tx.stmts = <<>>
    /\ IF fault
       THEN TxDone("dberr", Rollback(db, tx.work), TRUE)
       ELSE TxDone("ok", Commit(db, tx.work), FALSE)

\* A handler call that ends without entering the stepwise transaction.
Finish(r, newdb) ==
    /\ db' = newdb
    /\ last' = [r EXCEPT !.changed = (newdb # db)]
    /\ lastRead' = NoRead
    /\ UNCHANGED <<tx, logLines, tail, pure>>

(***************************************************************************)
(* accessUpdateHandler: ReplaceGroupACLGrants                              *)
(***************************************************************************)
accessStmts(g, acls, comments) ==
    <<Stmt("delGrants", g, NoRow, NoRow)>> \o
    [n \in 1..Len(acls) |-> Stmt("insGrant", g, acls[n], comments[n])]

accessUpdateHandler(g, acls, comments, fault) ==
    /\ ~tx.active
    /\ LET r(out, calls) ==
               [Result("accessUpdate", g, out, calls) EXCEPT
                    !.mismatch = (Len(acls) # Len(comments))]
       IN
       IF ~formUUIDsStringSlice(acls) THEN Finish(r("rejected", 0), db)
       ELSE IF Len(comments) # Len(acls) THEN Finish(r("rejected", 0), db)
       ELSE IF fault THEN Finish([r("dberr", 1) EXCEPT !.faulted = TRUE], db)
       ELSE /\ tx' = TxStart("accessUpdate", g, accessStmts(g, acls, comments),
                             Zip(acls, comments), GrantPairs(db, g), FALSE)
            /\ last' = NoResult
            /\ lastRead' = NoRead
            /\ UNCHANGED <<db, logLines, tail, pure>>

(***************************************************************************)
(* membersmembersHandler: ReplaceGroupMembers                              *)
(***************************************************************************)
membersStmtsNoDelete(g, sources, comments) ==
    [n \in 1..Len(sources) |->
        IF n <= Len(comments)
        THEN Stmt("insMember", g, sources[n], comments[n])
        ELSE Stmt("panic", NoRow, NoRow, NoRow)]

\* comments[n] with n beyond the comment list is an index-out-of-range panic.
membersStmts(g, sources, comments) ==
    <<Stmt("delMembers", g, NoRow, NoRow)>> \o
    [n \in 1..Len(sources) |->
        IF n <= Len(comments)
        THEN Stmt("insMember", g, sources[n], comments[n])
        ELSE Stmt("panic", NoRow, NoRow, NoRow)]

membersmembersHandler(g, sources, comments, fault) ==
    /\ ~tx.active
    /\ LET r(out, calls) ==
               [Result("membersmembers", g, out, calls) EXCEPT
                    !.mismatch = (Len(sources) # Len(comments))]
       IN
       IF ~assertUUID(g) THEN Finish(r("panic", 0), db)
       ELSE IF ~formUUIDsStringSlice(sources) THEN Finish(r("rejected", 0), db)
       ELSE IF fault THEN Finish([r("dberr", 1) EXCEPT !.faulted = TRUE], db)
       ELSE /\ tx' = TxStart("membersmembers", g,
                             membersStmts(g, sources, comments),
                             Zip(sources, comments), MemberPairs(db, g),
                             Len(sources) # Len(comments))
            /\ last' = NoResult
            /\ lastRead' = NoRead
            /\ UNCHANGED <<db, logLines, tail, pure>>

(***************************************************************************)
(* Read helpers: db.Query runs on the database handle, outside any         *)
(* transaction, and sees committed rows only.                              *)
(***************************************************************************)
dbQueryUncommitted(d, t) == IF t.active THEN t.work ELSE d

dbQuery(d, t) == d

Read(op, id, out, faulted, val) ==
    /\ lastRead' = [op |-> op, id |-> id, out |-> out, faulted |-> faulted,
                    val |-> val]
    /\ UNCHANGED <<db, tx, last, logLines, tail, pure>>

getGroupACLs(g, fault) ==
    IF fault THEN Read("getGroupACLs", g, "dberr", TRUE, {})
    ELSE Read("getGroupACLs", g, "ok", FALSE, ScanMap(GrantPairs(dbQuery(db, tx), g)))

getGroupSources(g, fault) ==
    IF fault THEN Read("getGroupSources", g, "dberr", TRUE, {})
    ELSE Read("getGroupSources", g, "ok", FALSE, ScanMap(MemberPairs(dbQuery(db, tx), g)))

(***************************************************************************)
(* txWrap run as one step.  fault is the number of the database call that  *)
(* suffers a storage fault (0: none); db.Begin is call 1.                  *)
(***************************************************************************)
RECURSIVE RunStmts(_, _, _, _)
RunStmts(w, stmts, fault, calls) ==
    IF stmts = <<>> THEN [ok |-> TRUE, work |-> w, calls |-> calls]
    ELSE IF ExecOK(w, Head(stmts), fault = calls + 1)
    THEN RunStmts(Apply(w, Head(stmts)), Tail(stmts), fault, calls + 1)
    ELSE [ok |-> FALSE, work |-> w, calls |-> calls + 1]

txWrap(d, stmts, fault) ==
    IF fault = 1 THEN [ok |-> FALSE, db |-> d, calls |-> 1]
    ELSE LET r == RunStmts(d, stmts, fault, 1) IN
         IF ~r.ok
         THEN [ok |-> FALSE, db |-> Rollback(d, r.work), calls |-> r.calls]
         ELSE IF fault = r.calls + 1
         THEN [ok |-> FALSE, db |-> Rollback(d, r.work), calls |-> r.calls + 1]
         ELSE [ok |-> TRUE, db |-> Commit(d, r.work), calls |-> r.calls + 1]

\* Whether the storage fault hit one of the calls the handler issued.
Hit(fault, calls) == fault \in 1..calls

\* The fault positions of a handler whose transaction holds n statements.
FaultAt(n) == 0..(n + 2)

\* The handler's reply for a finished txWrap.
Reply(op, id, r, fault) ==
    [Result(op, id, IF r.ok THEN "ok" ELSE "dberr", r.calls) EXCEPT
        !.faulted = Hit(fault, r.calls)]

Wrapped(op, id, r, fault) == Finish(Reply(op, id, r, fault), r.db)

(***************************************************************************)
(* Create handlers                                                         *)
(***************************************************************************)
aclNewHandler(comment, u, fault) ==
    /\ ~tx.active
    /\ IF comment = "" THEN Finish(Result("aclNew", u, "rejected", 0), db)
       ELSE Wrapped("aclNew", u,
                txWrap(db, <<Stmt("insACL", u, NoRow, comment)>>, fault), fault)

groupNewHandler(comment, u, fault) ==
    /\ ~tx.active
    /\ IF comment = "" THEN Finish(Result("groupNew", u, "rejected", 0), db)
       ELSE Wrapped("groupNew", u,
                txWrap(db, <<Stmt("insGroup", u, NoRow, comment)>>, fault), fault)

membersNewHandler(gid, source, sourceComment, comment, u, fault) ==
    /\ ~tx.active
    /\ IF ~assertUUID(gid) THEN Finish(Result("membersNew", u, "panic", 0), db)
       ELSE Wrapped("membersNew", u,
                txWrap(db, <<Stmt("insSource", u, source, sourceComment),
                             Stmt("insMember", gid, u, comment)>>, fault), fault)

allowHandler(typ, value, action, id, fault) ==
    /\ ~tx.active
    /\ IF typ = "" \/ value = "" \/ action = ""
       THEN Finish(Result("allow", id, "rejected", 0), db)
       ELSE Wrapped("allow", id,
                txWrap(db, <<Stmt("insRule", id,
                                  [type |-> typ, value |-> value,
                                   action |-> action, comment |-> ""], NoRow),
                             Stmt("insAclRule", newACL, id, NoRow)>>, fault), fault)

(***************************************************************************)
(* Rule handlers                                                           *)
(***************************************************************************)
aclMoveHandler(rules, dst, fault) ==
    /\ ~tx.active
    /\ IF ~formUUIDsStringSlice(rules)
       THEN Finish([Result("aclMove", dst, "rejected", 0) EXCEPT
                        !.rows = Len(db.aclrules)], db)
       ELSE LET r == txWrap(db, <<Stmt("moveRules", rules, dst, NoRow)>>, fault)
            IN  Finish([Reply("aclMove", dst, r, fault) EXCEPT
                            !.rows = Len(db.aclrules)], r.db)

ruleDeleteHandler(rules, fault) ==
    /\ ~tx.active
    /\ IF ~formUUIDsStringSlice(rules)
       THEN Finish(Result("ruleDelete", NoRow, "rejected", 0), db)
       ELSE Wrapped("ruleDelete", NoRow,
                txWrap(db, <<Stmt("delAclRules", rules, NoRow, NoRow),
                             Stmt("delRules", rules, NoRow, NoRow)>>, fault), fault)

ruleEditHandler(ruleID, typ, value, action, comment, fault) ==
    /\ ~tx.active
    /\ Wrapped("ruleEdit", ruleID,
            txWrap(db, <<Stmt("updRule", ruleID,
                              [type |-> typ, value |-> value,
                               action |-> action, comment |-> comment],
                              NoRow)>>, fault), fault)

(***************************************************************************)
(* Delete handlers: when the DELETE fails, the handler counts the rows     *)
(* that reference the entity and replies with errHTTP carrying the count.  *)
(***************************************************************************)
deleteHandler(op, id, st, n, refs, fault) ==
    /\ ~tx.active
    /\ LET r(out, calls) ==
               [Result(op, id, out, calls) EXCEPT
                    !.refs = refs, !.faulted = Hit(fault, calls)]
       IN
       IF ~assertUUID(id) THEN Finish(r("panic", 0), db)
       ELSE IF fault = 1 THEN Finish(r("dberr", 1), db)
       ELSE IF ExecOK(db, st, fault = 2)
       THEN IF fault = 3
            THEN Finish(r("dberr", 3), Rollback(db, Apply(db, st)))
            ELSE Finish(r("ok", 3), Commit(db, Apply(db, st)))
       ELSE IF fault = 3
       THEN Finish(r("dberr", 3), Rollback(db, db))
       ELSE Finish([r("blocked", 3) EXCEPT !.n = n], Rollback(db, db))

\* The rows that reference an entity when the delete handler is called.
MemberRefs(d, s) == Cardinality({i \in 1..Len(d.members) : d.members[i].source_id = s})
RuleRefs(d, a) == Cardinality({i \in 1..Len(d.aclrules) : d.aclrules[i].acl_id = a})

sourceDeleteHandler(sid, fault) ==
    deleteHandler("sourceDelete", sid, Stmt("delSource", sid, NoRow, NoRow),
                  CountMembers(db, sid), MemberRefs(db, sid), fault)

aclDeleteHandler(id, fault) ==
    deleteHandler("aclDelete", id, Stmt("delACL", id, NoRow, NoRow),
                  CountAclRules(db, id), RuleRefs(db, id), fault)

(***************************************************************************)
(* loadACL                                                                 *)
(***************************************************************************)
DecimalStrings == {"7"}

\* Row.Scan into a uint64 converts the column text with strconv.ParseUint.
ScanUint64(text) == text \in DecimalStrings

RulesOf(d, id) ==
    {r \in d.rules :
        \E i \in 1..Len(d.aclrules) :
            d.aclrules[i].acl_id = id /\ d.aclrules[i].rule_id = r.rule_id}

loadACL(id, fault) ==
    LET d == dbQuery(db, tx) IN
    IF fault = 1 THEN Read("loadACL", id, "lookupfail", TRUE, {})
    ELSE IF id \notin ACLKeys(d) THEN Read("loadACL", id, "notfound", FALSE, {})
    ELSE IF ~ScanUint64(id) THEN Read("loadACL", id, "lookupfail", FALSE, {})
    ELSE IF fault = 2 THEN Read("loadACL", id, "dberr", TRUE, {})
    ELSE Read("loadACL", id, "ok", FALSE, RulesOf(d, id))

(***************************************************************************)
(* Log tail                                                                *)
(***************************************************************************)
tailN == 30

NoTarget == [scheme |-> "", host |-> "", port |-> "", path |-> ""]

\* A log line: the empty line, a line the pattern does not match, or an
\* access line with its epoch field (parsable as a float or not) and its
\* target token.
EmptyLine == [shape |-> "empty", epoch |-> "", target |-> NoTarget]
GarbageLine == [shape |-> "garbage", epoch |-> "", target |-> NoTarget]
AccessLine(epoch, target) == [shape |-> "access", epoch |-> epoch, target |-> target]

Targets ==
    {[scheme |-> "http", host |-> "example.co.uk", port |-> "", path |-> "/a/b"],
     [scheme |-> "", host |-> "93.184.216.34", port |-> "443", path |-> ""]}

LogLineSet ==
    {EmptyLine, GarbageLine}
    \cup {AccessLine("1700000000.123", t) : t \in Targets}
    \cup {AccessLine("1.2.3", CHOOSE t \in Targets : t.scheme = "")}

\* strconv.ParseFloat of the epoch field
ParseFloatOK(e) == e = "1700000000.123"

\* err is "nil", "skip" (errSkip) or "bad" (a malformed line).
parseLogEntry(l) ==
    IF l.shape = "empty" THEN [err |-> "skip", line |-> l]
    ELSE IF l.shape # "access" THEN [err |-> "bad", line |-> l]
    ELSE IF ~ParseFloatOK(l.epoch) THEN [err |-> "bad", line |-> l]
    ELSE [err |-> "nil", line |-> l]

\* The exact reversal of a slice.
reverseAll(s) == [i \in 1..Len(s) |-> s[Len(s) + 1 - i]]

\* o starts as Len(s) empty strings; the loop swaps positions i and j into
\* it while i < j.
reverse(s) ==
    LET l == Len(s) IN
    [k \in 1..l |-> IF k - 1 < l - k \/ l - k < k - 1 THEN s[l + 1 - k] ELSE EmptyLine]

Truncate(lines) == IF Len(lines) > tailN THEN SubSeq(lines, 1, tailN) ELSE lines

Entries(lines) ==
    LET parsed == [i \in 1..Len(lines) |-> parseLogEntry(lines[i])]
        good == SelectSeq(parsed, LAMBDA e : e.err = "nil")
    IN  [i \in 1..Len(good) |-> good[i].line]

NoTail == [done |-> FALSE, entries |-> <<>>]

tailLogHandler(fault) ==
    /\ IF fault THEN tail' = NoTail
       ELSE tail' = [done |-> TRUE,
                     entries |-> Entries(Truncate(reverse(logLines)))]
    /\ UNCHANGED <<db, tx, last, lastRead, logLines, pure>>

\* The proxy, which owns the log, appends to it: text l after the last
\* line break (when nothing follows it yet), or a line break and text l.
LogAppend(l, nl) ==
    /\ IF nl
       THEN /\ Len(logLines) < MaxLines
            /\ logLines' = Append(logLines, l)
       ELSE /\ logLines[Len(logLines)] = EmptyLine
            /\ logLines' = [logLines EXCEPT ![Len(logLines)] = l]
    /\ tail' = NoTail
    /\ UNCHANGED <<db, tx, last, lastRead, pure>>

(***************************************************************************)
(* Host texts.  A text is a sequence of tokens: words of letters, numerals *)
(* and the punctuation characters the host and URL grammars tell apart.    *)
(***************************************************************************)
Words == {"http", "www", "example", "com", "co", "uk", "localhost", "a"}
Numerals == {"10", "0", "5", "443", "8080"}
Octets == {"10", "0", "5"}

Contains(s, t) == \E i \in 1..Len(s) : s[i] = t

\* strings.Index and strings.LastIndex, counted from 1; 0 when t is absent
Index(s, t) ==
    IF Contains(s, t)
    THEN CHOOSE i \in 1..Len(s) : s[i] = t /\ \A j \in 1..(i - 1) : s[j] # t
    ELSE 0

LastIndex(s, t) ==
    IF Contains(s, t)
    THEN CHOOSE i \in 1..Len(s) : s[i] = t /\ \A j \in (i + 1)..Len(s) : s[j] # t
    ELSE 0

From(s, i) == SubSeq(s, i, Len(s))

\* net.ParseIP: a dotted quad of octets, or the IPv6 literal ::5
ParseIP(h) ==
    \/ /\ Len(h) = 7
       /\ \A i \in {1, 3, 5, 7} : h[i] \in Octets
       /\ \A i \in {2, 4, 6} : h[i] = "."
    \/ h = <<":", ":", "5">>

\* net.SplitHostPort
SplitHostPort(hp) ==
    LET i == LastIndex(hp, ":")
        end == Index(hp, "]")
        bracket == Len(hp) > 0 /\ hp[1] = "["
        host == IF bracket THEN SubSeq(hp, 2, end - 1) ELSE SubSeq(hp, 1, i - 1)
        afterJ == IF bracket THEN From(hp, 2) ELSE hp
        afterK == IF bracket THEN From(hp, end + 1) ELSE hp
        bad == \/ i = 0
               \/ bracket /\ (end = 0 \/ end = Len(hp) \/ end + 1 # i)
               \/ ~bracket /\ Contains(host, ":")
               \/ Contains(afterJ, "[")
               \/ Contains(afterK, "]")
    IN  IF bad THEN [err |-> TRUE, host |-> <<>>, port |-> <<>>]
        ELSE [err |-> FALSE, host |-> host, port |-> From(hp, i + 1)]

\* publicsuffix.PublicSuffix under the rules com, uk and co.uk and the
\* default rule *: the position where the public suffix of d starts.
PublicSuffix(d) ==
    LET dot == LastIndex(d, ".")
        before == SubSeq(d, 1, dot - 1)
        dot2 == LastIndex(before, ".")
    IN  IF dot > 0 /\ From(d, dot + 1) = <<"uk">> /\ From(before, dot2 + 1) = <<"co">>
        THEN dot2 + 1
        ELSE dot + 1

\* publicsuffix.EffectiveTLDPlusOne.  Releases of the library differ in
\* whether a domain with an empty label is refused (emptyLabelCheck).
EffectiveTLDPlusOne(d, emptyLabelCheck) ==
    LET suffix == PublicSuffix(d)
        i == suffix - 1
        empty == \/ Len(d) > 0 /\ (d[1] = "." \/ d[Len(d)] = ".")
                 \/ \E k \in 1..(Len(d) - 1) : d[k] = "." /\ d[k + 1] = "."
    IN  IF emptyLabelCheck /\ empty THEN [err |-> TRUE, domain |-> <<>>]
        ELSE IF i < 1 THEN [err |-> TRUE, domain |-> <<>>]
        ELSE IF d[i] # "." THEN [err |-> TRUE, domain |-> <<>>]
        ELSE [err |-> FALSE,
              domain |-> From(d, 1 + LastIndex(SubSeq(d, 1, i - 1), "."))]

\* A canonicalizer that prefixes the separator also when no registrable
\* domain can be derived.
host2domainAlwaysDot(h, emptyLabelCheck) ==
    IF ParseIP(h) THEN h
    ELSE IF ~SplitHostPort(h).err /\ ParseIP(SplitHostPort(h).host)
    THEN SplitHostPort(h).host
    ELSE LET r == EffectiveTLDPlusOne(h, emptyLabelCheck)
         IN  <<".">> \o (IF r.err THEN h ELSE r.domain)

host2domain(h, emptyLabelCheck) ==
    IF ParseIP(h) THEN h
    ELSE IF ~SplitHostPort(h).err /\ ParseIP(SplitHostPort(h).host)
    THEN SplitHostPort(h).host
    ELSE LET r == EffectiveTLDPlusOne(h, emptyLabelCheck)
         IN  IF r.err THEN h ELSE <<".">> \o r.domain

HasPrefix(s, p) == Len(s) >= Len(p) /\ SubSeq(s, 1, Len(p)) = p

\* getScheme of net/url: the scheme is what precedes the first ":" when it
\* starts with a letter and holds only letters, digits and dots.
getScheme(u) ==
    LET stop == {i \in 1..Len(u) : u[i] \notin Words \cup Numerals \cup {"."}}
        i == IF stop = {} THEN 0 ELSE CHOOSE k \in stop : \A j \in stop : k <= j
    IN  IF Len(u) > 0 /\ u[1] = ":"
        THEN [err |-> TRUE, scheme |-> <<>>, rest |-> <<>>]
        ELSE IF Len(u) > 0 /\ u[1] \in Words /\ i > 0 /\ u[i] = ":"
        THEN [err |-> FALSE, scheme |-> SubSeq(u, 1, i - 1), rest |-> From(u, i + 1)]
        ELSE [err |-> FALSE, scheme |-> <<>>, rest |-> u]

NoURL == [err |-> TRUE, Scheme |-> <<>>, Host |-> <<>>, Path |-> <<>>]

\* url.Parse of a target without user info, query or fragment.  Host is the
\* whole authority, its port included.
urlParse(u) ==
    LET s == getScheme(u)
        colon == Index(s.rest, ":")
        slash == Index(s.rest, "/")
        afterSlashes == From(s.rest, 3)
        cut == Index(afterSlashes, "/")
        authority == IF cut = 0 THEN afterSlashes ELSE SubSeq(afterSlashes, 1, cut - 1)
        path == IF cut = 0 THEN <<>> ELSE From(afterSlashes, cut)
    IN  IF u = <<>> \/ s.err THEN NoURL
        ELSE IF ~HasPrefix(s.rest, <<"/">>)
        THEN IF s.scheme # <<>>
             THEN [err |-> FALSE, Scheme |-> s.scheme, Host |-> <<>>, Path |-> <<>>]
             ELSE IF colon > 0 /\ (slash = 0 \/ colon < slash)
             THEN NoURL
             ELSE [err |-> FALSE, Scheme |-> <<>>, Host |-> <<>>, Path |-> s.rest]
        ELSE IF HasPrefix(s.rest, <<"/", "/">>)
                /\ (s.scheme # <<>> \/ ~HasPrefix(s.rest, <<"/", "/", "/">>))
        THEN IF HasPrefix(authority, <<"[">>) /\ ~Contains(authority, "]")
             THEN NoURL
             ELSE [err |-> FALSE, Scheme |-> s.scheme, Host |-> authority,
                   Path |-> path]
        ELSE [err |-> FALSE, Scheme |-> s.scheme, Host |-> <<>>, Path |-> s.rest]

NoEntry == [Domain |-> <<>>, Host |-> <<>>, Path |-> <<>>, URL |-> <<>>]

\* The host, path and domain fields of the entry parseLogEntry builds from
\* the target token u of a line.
logEntry(u, emptyLabelCheck) ==
    LET ur == urlParse(u)
        full == Contains(u, "/") /\ ~ur.err /\ ur.Scheme # <<>>
        sp == SplitHostPort(u)
        host == IF full THEN ur.Host ELSE IF sp.err THEN u ELSE sp.host
        p == IF full THEN ur.Path ELSE <<>>
    IN  [Domain |-> host2domain(host, emptyLabelCheck), Host |-> host,
         Path |-> p, URL |-> u]

(***************************************************************************)
(* Calls of the two pure functions on given arguments                      *)
(***************************************************************************)
MaxHostLen == 3   \* tokens of an arbitrary host text

HostAlphabet == {".", ":", "example", "com", "co", "uk", "10", "443"}

HostTexts ==
    {<<"example", ".", "com">>, <<"www", ".", "example", ".", "co", ".", "uk">>,
     <<"localhost">>, <<"10", ".", "0", ".", "0", ".", "5">>,
     <<"[", ":", ":", "5", "]">>}

Ports == {<<>>, <<":", "443">>, <<":", "8080">>}

Paths == {<<>>, <<"/">>, <<"/", "a">>}

Schemes == {<<>>, <<"http", ":", "/", "/">>}

\* Host arguments: every short text over the alphabet, the hosts with and
\* without a port, the IPv6 literal, and the dot-prefixed hosts.
HostArgs ==
    UNION {[1..n -> HostAlphabet] : n \in 0..MaxHostLen}
    \cup {h \o p : h \in HostTexts, p \in Ports}
    \cup {<<":", ":", "5">>}
    \cup {<<".">> \o h : h \in HostTexts}

\* Target tokens of access lines: CONNECT style and absolute URLs.
TargetArgs == {s \o h \o p \o q : s \in Schemes, h \in HostTexts, p \in Ports, q \in Paths}

LineArgs ==
    {EmptyLine, GarbageLine}
    \cup {AccessLine(e, t) : e \in {"1700000000.123", "1.2.3"}, t \in TargetArgs}

Call(f, check, arg) ==
    [f |-> f, emptyLabelCheck |-> check, arg |-> arg, done |-> 0, err |-> "nil",
     out |-> <<>>, again |-> <<>>, entry |-> NoEntry]

NoCall == Call("none", FALSE, <<>>)

Keep == UNCHANGED <<db, tx, last, lastRead, logLines, tail>>

\* host2domain(arg)
Canonicalize ==
    /\ pure.f = "host2domain"
    /\ pure.done = 0
    /\ pure' = [pure EXCEPT !.done = 1,
                            !.out = host2domain(pure.arg, pure.emptyLabelCheck)]
    /\ Keep

\* host2domain applied to its own result
CanonicalizeAgain ==
    /\ pure.f = "host2domain"
    /\ pure.done = 1
    /\ pure' = [pure EXCEPT !.done = 2,
                            !.again = host2domain(pure.out, pure.emptyLabelCheck)]
    /\ Keep

\* parseLogEntry(arg)
ParseLine ==
    /\ pure.f = "parseLogEntry"
    /\ pure.done = 0
    /\ LET r == parseLogEntry(pure.arg) IN
       pure' = [pure EXCEPT !.done = 1, !.err = r.err,
                    !.entry = IF r.err = "nil"
                              THEN logEntry(pure.arg.target, pure.emptyLabelCheck)
                              ELSE NoEntry]
    /\ Keep

(***************************************************************************)
(* Specifications                                                          *)
(***************************************************************************)
RuleTypes == {"", "domain"}
RuleValues == {"", "example.com"}
RuleActions == {"", "allow"}
RuleEdits ==
    {[type |-> "regex", value |-> "example.com", action |-> "block", comment |-> "c"],
     [type |-> "", value |-> "", action |-> "", comment |-> ""]}

Init ==
    /\ db = [EmptyDB EXCEPT !.acls = {[acl_id |-> newACL, comment |-> "new"]}]
    /\ tx = IdleTx
    /\ last = NoResult
    /\ lastRead = NoRead
    /\ logLines = <<EmptyLine>>
    /\ tail = NoTail
    /\ pure = NoCall

GroupNew == \E c \in {"", "c"}, u \in GroupIDs \ GroupKeys(db), f \in FaultAt(1) :
                groupNewHandler(c, u, f)

ACLNew == \E c \in {"", "c"}, u \in ACLIDs \ ACLKeys(db), f \in FaultAt(1) :
              aclNewHandler(c, u, f)

MembersNewOn(G, S) ==
    \E g \in G, src \in S, c \in {"c"},
       u \in SourceIDs \ SourceKeys(db), f \in FaultAt(2) :
        membersNewHandler(g, src, c, c, u, f)

MembersNew == MembersNewOn(GroupIDs \cup BadIDs, {"", "10.0.0.1"})

MembersMembersOn(G, S, C) ==
    \E g \in G, ss \in Lists(S), cs \in Lists(C), f \in BOOLEAN :
        membersmembersHandler(g, ss, cs, f)

MembersMembers ==
    MembersMembersOn(GroupIDs \cup BadIDs, SourceIDs \cup BadIDs, Comments)

AccessUpdateOn(G, A, C) ==
    \E g \in G, as \in Lists(A), cs \in Lists(C), f \in BOOLEAN :
        accessUpdateHandler(g, as, cs, f)

AccessUpdate ==
    AccessUpdateOn(GroupIDs \cup BadIDs, ACLIDs \cup BadIDs, Comments)

\* The same handlers on requests whose identifiers are all well formed.
MembersNewWF == MembersNewOn(GroupIDs, {"10.0.0.1"})

MembersMembersWF == MembersMembersOn(GroupIDs, SourceIDs, {"c"})

AccessUpdateWF == AccessUpdateOn(GroupIDs, ACLIDs, {"c"})

AccessUpdateAny == AccessUpdateOn(GroupIDs, ACLIDs, Comments)

MembersMembersAny == MembersMembersOn(GroupIDs, SourceIDs, Comments)

TxStep == \E f \in BOOLEAN : TxExec(f) \/ TxCommit(f)

SourceDelete ==
    \E s \in SourceIDs \cup BadIDs, f \in FaultAt(1) : sourceDeleteHandler(s, f)

ACLDelete == \E a \in ACLIDs \cup BadIDs, f \in FaultAt(1) : aclDeleteHandler(a, f)

Allow ==
    \E t \in RuleTypes, v \in RuleValues, a \in RuleActions,
       id \in RuleIDs \ RuleKeys(db), f \in FaultAt(2) :
        allowHandler(t, v, a, id, f)

ACLMoveOn(R, A) ==
    \E rs \in Lists(R), dst \in A, f \in FaultAt(1) : aclMoveHandler(rs, dst, f)

ACLMove == ACLMoveOn(RuleIDs \cup BadIDs, ACLIDs \cup BadIDs)

ACLMoveWF == ACLMoveOn(RuleIDs, ACLIDs)

RuleDelete ==
    \E rs \in Lists(RuleIDs \cup BadIDs), f \in FaultAt(2) : ruleDeleteHandler(rs, f)

RuleEdit ==
    \E id \in RuleIDs \cup BadIDs, e \in RuleEdits, f \in FaultAt(1) :
        ruleEditHandler(id, e.type, e.value, e.action, e.comment, f)

ReadGroupACLs == \E g \in GroupIDs, f \in BOOLEAN : getGroupACLs(g, f)

ReadGroupSources == \E g \in GroupIDs, f \in BOOLEAN : getGroupSources(g, f)

LoadACL == \E a \in ACLIDs \cup BadIDs, f \in 0..2 : loadACL(a, f)

TailLog == \E f \in BOOLEAN : tailLogHandler(f)

LogWrite == \E l \in LogLineSet, nl \in BOOLEAN : LogAppend(l, nl)

\* Group membership: sources and members.
NextMembers ==
    \/ GroupNew
    \/ MembersNewWF
    \/ MembersMembersAny
    \/ TxStep
    \/ SourceDelete
    \/ ReadGroupSources

SpecMembers == Init /\ [][NextMembers]_vars

\* Group access grants.
NextAccess ==
    \/ GroupNew
    \/ ACLNew
    \/ AccessUpdateAny
    \/ TxStep

SpecAccess == Init /\ [][NextAccess]_vars

\* ACLs and their rules.
NextRules ==
    \/ ACLNew
    \/ Allow
    \/ ACLMove
    \/ RuleDelete
    \/ RuleEdit
    \/ ACLDelete

SpecRules == Init /\ [][NextRules]_vars

\* Loading the rule list of an ACL.
NextLoad ==
    \/ ACLNew
    \/ Allow
    \/ ACLMoveWF
    \/ LoadACL

SpecLoad == Init /\ [][NextLoad]_vars

\* Both replace-all handlers with the reads of what they replace.
NextReplace ==
    \/ GroupNew
    \/ ACLNew
    \/ MembersNewWF
    \/ MembersMembersWF
    \/ AccessUpdateWF
    \/ TxStep
    \/ ReadGroupSources
    \/ ReadGroupACLs

SpecReplace == Init /\ [][NextReplace]_vars

\* Deleting ACLs that hold rules or are granted to groups.
NextDelete ==
    \/ GroupNew
    \/ ACLNew
    \/ AccessUpdateWF
    \/ TxStep
    \/ Allow
    \/ ACLMoveWF
    \/ ACLDelete

SpecDelete == Init /\ [][NextDelete]_vars

\* The log tail.
NextLog == LogWrite \/ TailLog

SpecLog == Init /\ [][NextLog]_vars

\* The create operations, with empty and non-empty fields.
NextCreate ==
    \/ GroupNew
    \/ ACLNew
    \/ MembersNew
    \/ Allow

SpecCreate == Init /\ [][NextCreate]_vars

\* The pure functions on every argument.
InitParse ==
    /\ db = EmptyDB
    /\ tx = IdleTx
    /\ last = NoResult
    /\ lastRead = NoRead
    /\ logLines = <<EmptyLine>>
    /\ tail = NoTail
    /\ pure \in {Call("host2domain", c, h) : c \in BOOLEAN, h \in HostArgs}
                \cup {Call("parseLogEntry", c, l) : c \in BOOLEAN, l \in LineArgs}

NextParse == Canonicalize \/ CanonicalizeAgain \/ ParseLine

SpecParse == InitParse /\ [][NextParse]_vars

Next ==
    \/ NextMembers
    \/ NextAccess
    \/ NextRules
    \/ NextLoad
    \/ MembersNew
    \/ MembersMembers
    \/ AccessUpdate
    \/ ReadGroupACLs
    \/ NextReplace
    \/ NextDelete
    \/ NextLog
    \/ NextCreate
    \/ NextParse

Spec == Init /\ [][Next]_vars

(***************************************************************************)
(* Properties                                                              *)
(***************************************************************************)

\* C1: replacing a group's ACL grant list is all-or-nothing.  While the
\* transaction is in flight the committed grants of the group are the old
\* ones; when the call ends in an error (the DELETE, any INSERT or the
\* commit failed) the committed database is what it was before the call;
\* when it commits, the group's grants are exactly the submitted pairs.
C1_GrantsAllOrNothing ==
    /\ (tx.active /\ tx.op = "accessUpdate")
            => GrantPairs(db, tx.gid) = tx.old
    /\ (last.op = "accessUpdate" /\ last.out # "ok") => ~last.changed
    /\ (last.op = "accessUpdate" /\ last.out = "ok")
            => GrantPairs(db, last.id) = last.new

\* A call that failed at its second INSERT, after the DELETE and the first
\* INSERT had run, and left a non-empty old grant list in place.
C1_Witness ==
    /\ last.op = "accessUpdate"
    /\ last.out = "dberr"
    /\ last.calls >= 4
    /\ GrantPairs(db, last.id) # <<>>

ReadAfterReplace ==
    /\ last.op = "membersmembers"
    /\ last.out = "ok"
    /\ lastRead.op = "getGroupSources"
    /\ lastRead.out = "ok"
    /\ lastRead.id = last.id

OneCommentPerKey(pairs) ==
    \A i, j \in 1..Len(pairs) : pairs[i][1] = pairs[j][1] => pairs[i][2] = pairs[j][2]

\* C2 as stated: after a successful ReplaceGroupMembers(g, newSet), a read
\* of g's members returns exactly the submitted (SourceID, comment) pairs,
\* whatever list was submitted.
C2_AsStated == ReadAfterReplace => lastRead.val = Range(last.new)

\* C2 (amended): after a successful ReplaceGroupMembers(g, newSet), a read of
\* g's members never holds a source twice, and it returns exactly the
\* submitted pairs when the list names no source with two different
\* comments.
C2_ReadReturnsNewSet ==
    ReadAfterReplace =>
        /\ \A p, q \in lastRead.val : p[1] = q[1] => p = q
        /\ OneCommentPerKey(last.new) => lastRead.val = Range(last.new)

\* A read after a committed replace that submitted two different sources.
C2_Witness ==
    /\ ReadAfterReplace
    /\ Len(last.new) = 2
    /\ Cardinality(lastRead.val) = 2

\* C3: DeleteACL on an ACL with zero linked rules succeeds and removes the
\* row, also when group access grants still reference the ACL; with n >= 1
\* linked rules it is blocked, nothing changes, and it reports exactly n.
C3_AsStated ==
    (last.op = "aclDelete" /\ last.out # "panic" /\ ~last.faulted) =>
        IF last.refs = 0
        THEN last.out = "ok" /\ last.id \notin ACLKeys(db)
        ELSE /\ last.out = "blocked"
             /\ last.n = last.refs
             /\ ~last.changed
             /\ last.id \in ACLKeys(db)

\* C4: DeleteSource never removes a source that a membership row references:
\* the call is blocked, reports the exact number of referencing rows and
\* changes nothing; with no referencing row it succeeds and the source row
\* is gone.
C4_SourceDeleteBlocked ==
    (last.op = "sourceDelete" /\ last.out # "panic") =>
        /\ last.refs >= 1 => (~last.changed /\ last.id \in SourceKeys(db))
        /\ (~last.faulted /\ last.refs >= 1)
                => (last.out = "blocked" /\ last.n = last.refs)
        /\ (~last.faulted /\ last.refs = 0)
                => (last.out = "ok" /\ last.id \notin SourceKeys(db))

\* A blocked delete of a source while rows of another source exist as well.
C4_Witness ==
    /\ last.op = "sourceDelete"
    /\ last.out = "blocked"
    /\ last.n >= 1
    /\ Len(db.members) > last.n

UniqueLinks ==
    \A i, j \in 1..Len(db.aclrules) :
        db.aclrules[i].rule_id = db.aclrules[j].rule_id => i = j

\* C5: after any sequence of rule creations, moves, edits and deletions every
\* RuleID appears in at most one AclRule row, and a move leaves the number
\* of AclRule rows unchanged.
C5_OneLinkPerRule ==
    /\ UniqueLinks
    /\ last.op = "aclMove" => Len(db.aclrules) = last.rows

\* A committed move that re-targeted a row while two rules are linked.
C5_Witness ==
    /\ last.op = "aclMove"
    /\ last.out = "ok"
    /\ last.changed
    /\ Len(db.aclrules) = 2

\* C6: a request identifier that does not match the UUID pattern (group ID
\* of accessUpdateHandler, rule ID of ruleEditHandler, destination of
\* aclMoveHandler, ACL ID of loadACL) is rejected before any database call.
C6_AsStated ==
    /\ (last.op \in {"accessUpdate", "ruleEdit", "aclMove"} /\ ~reUUID(last.id))
            => (last.calls = 0 /\ ~last.changed)
    /\ tx.active => reUUID(tx.gid)
    /\ (lastRead.op = "loadACL" /\ ~reUUID(lastRead.id))
            => lastRead.out = "rejected"

\* C7: a replace-all request whose identifier and comment lists differ in
\* length is rejected as a validation error before any transaction begins.
C7_AsStated ==
    /\ (last.op \in {"accessUpdate", "membersmembers"} /\ last.mismatch
            /\ reUUID(last.id))
            => (last.out = "rejected" /\ last.calls = 0)
    /\ tx.active => ~tx.mismatch

ReaderOf(op) == IF op = "membersmembers" THEN "getGroupSources" ELSE "getGroupACLs"

\* C8: a read of a group's members or grants that interleaves with a
\* replace-all transaction on that group returns the complete old set or the
\* complete new set, and a read after the commit returns the new set.
C8_ReadsSeeWholeSets ==
    /\ (tx.active /\ lastRead.out = "ok" /\ lastRead.op = ReaderOf(tx.op)
            /\ lastRead.id = tx.gid)
            => lastRead.val \in {ScanMap(tx.old), ScanMap(tx.new)}
    /\ (last.op \in {"accessUpdate", "membersmembers"} /\ last.out = "ok"
            /\ lastRead.out = "ok" /\ lastRead.op = ReaderOf(last.op)
            /\ lastRead.id = last.id)
            => lastRead.val = ScanMap(last.new)

\* A read of the members between the transaction's DELETE and its commit,
\* the old and the new set both non-empty and different.
C8_Witness ==
    /\ tx.active
    /\ tx.op = "membersmembers"
    /\ tx.calls >= 2
    /\ tx.old # <<>>
    /\ tx.new # <<>>
    /\ ScanMap(tx.old) # ScanMap(tx.new)
    /\ lastRead.op = "getGroupSources"
    /\ lastRead.out = "ok"
    /\ lastRead.id = tx.gid

\* C9: the log tail returns exactly the parsed entries of the last tailN
\* lines, most recent first, for every log content.
C9_AsStated ==
    tail.done => tail.entries = Entries(Truncate(reverseAll(logLines)))

\* C10: loadACL reports not-found when no ACL row has the ID, succeeds with
\* exactly the linked rules when the row exists and the store is healthy,
\* and reports the generic lookup failure only on a storage fault.
C10_AsStated ==
    lastRead.op = "loadACL" =>
        /\ (~lastRead.faulted /\ lastRead.id \notin ACLKeys(db))
                => lastRead.out = "notfound"
        /\ (~lastRead.faulted /\ lastRead.id \in ACLKeys(db))
                => (lastRead.out = "ok" /\ lastRead.val = RulesOf(db, lastRead.id))
        /\ lastRead.out = "lookupfail" => lastRead.faulted

\* C11: after any sequence of create operations every Source row has a
\* non-empty source text and every Rule row has non-empty type, value and
\* action; a create request with an empty mandatory field is rejected and
\* leaves the store unchanged.
C11_AsStated ==
    /\ \A r \in db.sources : r.source # ""
    /\ \A r \in db.rules : r.type # "" /\ r.value # "" /\ r.action # ""
    /\ (last.op \in {"membersNew", "allow"} /\ last.out = "rejected")
            => ~last.changed

\* C12: the Host field of every parsed entry carries no port, for a bare
\* host:port target and for an absolute URL whose authority has a port, and
\* neither does the Domain derived from it.
HasPort(h) ==
    /\ ~ParseIP(h)
    /\ Len(h) >= 2
    /\ h[Len(h) - 1] = ":"
    /\ h[Len(h)] \in Numerals

C12_AsStated ==
    (pure.f = "parseLogEntry" /\ pure.done = 1 /\ pure.err = "nil")
        => (~HasPort(pure.entry.Host) /\ ~HasPort(pure.entry.Domain))

\* A registrable domain with the separator in front of it.
DotPrefixed(h, emptyLabelCheck) ==
    /\ Len(h) > 1
    /\ h[1] = "."
    /\ ~EffectiveTLDPlusOne(Tail(h), emptyLabelCheck).err
    /\ EffectiveTLDPlusOne(Tail(h), emptyLabelCheck).domain = Tail(h)

\* C13: host2domain returns a text for every host of every shape, applying
\* it to its own result changes nothing, and a registrable domain that
\* already has the leading separator is returned unchanged.
C13_Idempotent ==
    pure.f = "host2domain" =>
        /\ pure.done >= 1 =>
                /\ Len(pure.out) <= Len(pure.arg) + 1
                /\ \A i \in 1..Len(pure.out) :
                        pure.out[i] \in Range(pure.arg) \cup {"."}
        /\ pure.done = 2 => pure.again = pure.out
        /\ (pure.done >= 1 /\ DotPrefixed(pure.arg, pure.emptyLabelCheck))
                => pure.out = pure.arg

\* A hostname under a public suffix, reduced to its registrable domain and
\* canonicalized a second time.
C13_Witness ==
    /\ pure.f = "host2domain"
    /\ pure.done = 2
    /\ pure.arg = <<"www", ".", "example", ".", "co", ".", "uk">>
    /\ pure.out = <<".", "example", ".", "co", ".", "uk">>

====
